---- MODULE Spec2Model ----
(***************************************************************************)
(* Model of the Mython lexer (lexer.h / lexer.cpp) and of the AST          *)
(* evaluator (statement.h / statement.cpp, runtime.cpp).                   *)
(*                                                                         *)
(* Characters are one-character strings, the input stream is a sequence of *)
(* characters, and peek() at end of stream yields the sentinel EOF.  The    *)
(* build is assumed to have a signed `char`, so that `c == EOF` in          *)
(* Lexer::NextToken is true exactly at end of stream.                       *)
(***************************************************************************)
EXTENDS Integers, Sequences, FiniteSets, TLC

\* the lexer: the source text, and the fields of parse::Lexer
VARIABLES src, input_, current_indent_size_, indent_sizes_, tokens_, status

\* the evaluator: the root node, the Closure and the output stream of the Context
\* it is executed with, and the way the outermost Execute call ended
VARIABLES program, closure, output, outcome

\* the field closures of the ClassInstance objects, by the identity of the object
VARIABLE heap

lexvars == <<src, input_, current_indent_size_, indent_sizes_, tokens_, status>>

evalvars == <<program, closure, output, outcome, heap>>

vars == <<src, input_, current_indent_size_, indent_sizes_, tokens_, status,
          program, closure, output, outcome, heap>>

\* ------------------------------------------------------------------ bounds

\* largest number of lines of a generated input
MaxLines == 3

\* largest number of statements of a generated Compound
MaxStatements == 3

\* how many Eof tokens a client reads before it stops calling NextToken
MaxEofReads == 2

\* the most lines of an input with wide indentation
MaxWideLines == 3

\* the most tokens read from an input with wide indentation
MaxTokens == 12

\* the most methods a generated class declares
MaxMethods == 2

\* the most arguments of a generated Print
MaxArgs == 3

\* the most identifiers of a generated dotted path
MaxPath == 3

\* ----------------------------------------------------------- characters

EOF == "EOF"

Digits == {"0", "1", "2", "3", "4", "5", "6", "7", "8", "9"}

\* letters that occur in the generated inputs and in the keyword table
Alphas == {"a", "b", "c", "d", "e", "f", "i", "l", "n", "o", "p", "r", "s", "t", "u",
           "F", "N", "T"}

isdigit(c) == c \in Digits

isalpha(c) == c \in Alphas

DigitValue(c) ==
    CASE c = "0" -> 0 [] c = "1" -> 1 [] c = "2" -> 2 [] c = "3" -> 3 [] c = "4" -> 4
      [] c = "5" -> 5 [] c = "6" -> 6 [] c = "7" -> 7 [] c = "8" -> 8 [] c = "9" -> 9

\* istream::peek(): the next character, or EOF at end of stream
Peek(s) == IF s = <<>> THEN EOF ELSE Head(s)

\* istream::ignore() / get(): drop one character (no effect at end of stream)
Ignore(s) == IF s = <<>> THEN s ELSE Tail(s)

Drop(s, n) == SubSeq(s, n + 1, Len(s))

\* ---------------------------------------------------------------- tokens

Tok(t) == [type |-> t]

ValTok(t, v) == [type |-> t, value |-> v]

\* Lexer::keywords
keywords(id) ==
    CASE id = <<"c", "l", "a", "s", "s">>      -> Tok("Class")
      [] id = <<"r", "e", "t", "u", "r", "n">> -> Tok("Return")
      [] id = <<"i", "f">>                     -> Tok("If")
      [] id = <<"e", "l", "s", "e">>           -> Tok("Else")
      [] id = <<"d", "e", "f">>                -> Tok("Def")
      [] id = <<"p", "r", "i", "n", "t">>      -> Tok("Print")
      [] id = <<"a", "n", "d">>                -> Tok("And")
      [] id = <<"o", "r">>                     -> Tok("Or")
      [] id = <<"n", "o", "t">>                -> Tok("Not")
      [] id = <<"N", "o", "n", "e">>           -> Tok("None")
      [] id = <<"T", "r", "u", "e">>           -> Tok("True")
      [] id = <<"F", "a", "l", "s", "e">>      -> Tok("False")
      [] OTHER                                 -> ValTok("Id", id)

\* Lexer::comparison_lexems
comparison_lexems(c) ==
    CASE c = "=" -> Tok("Eq")
      [] c = "!" -> Tok("NotEq")
      [] c = "<" -> Tok("LessOrEq")
      [] c = ">" -> Tok("GreaterOrEq")

\* ------------------------------------------------------- lexer internals

\* std::stack<uint8_t>: a pushed size_t is stored modulo 2^8
ByteRange == 256

Top(stack) == stack[Len(stack)]

Push(stack, v) == Append(stack, v % ByteRange)

Pop(stack) == SubSeq(stack, 1, Len(stack) - 1)

\* Lexer::CurrentToken
CurrentToken(toks) == toks[Len(toks)]

IsTok(toks, t) == toks # <<>> /\ CurrentToken(toks).type = t

\* the inner for-loop of MoveToNextToken: the number of spaces s begins with
CountSpaces(s) ==
    CHOOSE n \in 0..Len(s) : /\ \A i \in 1..n : s[i] = " "
                             /\ n < Len(s) => s[n + 1] # " "

RECURSIVE SkipToLineEnd(_)
\* the comment loop of MoveToNextToken
SkipToLineEnd(s) ==
    IF Peek(s) # "\n" /\ Peek(s) # EOF THEN SkipToLineEnd(Tail(s)) ELSE s

SkipComment(s) == IF Peek(s) = "#" THEN SkipToLineEnd(s) ELSE s

\* MoveLoop without the skipping of line ends
MoveLoop_NoSkip(s, skip_nl) ==
    LET n == CountSpaces(s)
    IN  [space_count |-> n, input |-> SkipComment(Drop(s, n))]

RECURSIVE MoveLoop(_, _)
\* the while(true) loop of MoveToNextToken; skip_nl is (tokens_.empty() || is_new_line)
MoveLoop(s, skip_nl) ==
    LET n  == CountSpaces(s)
        s2 == SkipComment(Drop(s, n))
    IN  IF Peek(s2) = "\n" /\ skip_nl
        THEN MoveLoop(Tail(s2), skip_nl)
        ELSE [space_count |-> n, input |-> s2]

\* Lexer::MoveToNextToken on the lexer fields L
MoveToNextToken(L) ==
    LET is_new_line == IsTok(L.tokens, "Newline")
        m == MoveLoop(L.input, L.tokens = <<>> \/ is_new_line)
    IN  IF is_new_line /\ m.space_count % 2 # 0
        THEN [L EXCEPT !.input = m.input, !.status = "LexerError"]
        ELSE IF is_new_line /\ m.space_count # Top(L.stack)
        THEN [L EXCEPT !.input = m.input, !.cur = m.space_count]
        ELSE [L EXCEPT !.input = m.input]

\* ParseIndent that unwinds the whole stack on a decrease
ParseIndent_PopAll(L) ==
    IF L.cur > Top(L.stack)
    THEN [L EXCEPT !.stack = Push(L.stack, L.cur),
                   !.tokens = Append(L.tokens, Tok("Indent"))]
    ELSE [L EXCEPT !.stack = <<0>>,
                   !.tokens = Append(L.tokens, Tok("Dedent"))]

\* Lexer::ParseIndent
ParseIndent(L) ==
    IF L.cur > Top(L.stack)
    THEN [L EXCEPT !.stack = Push(L.stack, L.cur),
                   !.tokens = Append(L.tokens, Tok("Indent"))]
    ELSE [L EXCEPT !.stack = Pop(L.stack),
                   !.tokens = Append(L.tokens, Tok("Dedent"))]

\* Lexer::ParseNewLine
ParseNewLine(L) ==
    [L EXCEPT !.input = Ignore(L.input),
              !.tokens = Append(L.tokens, Tok("Newline"))]

\* ParseEof that never synthesises the terminating Newline
ParseEof_NoNewline(L) == [L EXCEPT !.tokens = Append(L.tokens, Tok("Eof"))]

\* ParseEof without the test for a current Eof token
ParseEof_NoEofTest(L) ==
    IF L.tokens = <<>> \/ IsTok(L.tokens, "Newline")
                       \/ IsTok(L.tokens, "Dedent")
    THEN [L EXCEPT !.tokens = Append(L.tokens, Tok("Eof"))]
    ELSE [L EXCEPT !.tokens = Append(L.tokens, Tok("Newline"))]

\* Lexer::ParseEof
ParseEof(L) ==
    IF L.tokens = <<>> \/ IsTok(L.tokens, "Newline")
                       \/ IsTok(L.tokens, "Eof")
                       \/ IsTok(L.tokens, "Dedent")
    THEN [L EXCEPT !.tokens = Append(L.tokens, Tok("Eof"))]
    ELSE [L EXCEPT !.tokens = Append(L.tokens, Tok("Newline"))]

RECURSIVE DigitRun(_)
DigitRun(s) == IF isdigit(Peek(s)) THEN 1 + DigitRun(Tail(s)) ELSE 0

RECURSIVE stoi(_, _)
stoi(ds, acc) == IF ds = <<>> THEN acc ELSE stoi(Tail(ds), 10 * acc + DigitValue(Head(ds)))

\* Lexer::ParseDigit
ParseDigit(L) ==
    LET n == DigitRun(L.input)
    IN  [L EXCEPT !.input = Drop(L.input, n),
                  !.tokens = Append(L.tokens, ValTok("Number", stoi(SubSeq(L.input, 1, n), 0)))]

RECURSIVE IdRun(_)
IdRun(s) ==
    IF isalpha(Peek(s)) \/ isdigit(Peek(s)) \/ Peek(s) = "_" THEN 1 + IdRun(Tail(s)) ELSE 0

\* Lexer::ParseIdentifier
ParseIdentifier(L) ==
    LET n == IdRun(L.input)
    IN  [L EXCEPT !.input = Drop(L.input, n),
                  !.tokens = Append(L.tokens, keywords(SubSeq(L.input, 1, n)))]

RECURSIVE StringLoop(_, _, _)
\* the for-loop of ParseString: s is the stream after the opening quote.  When the
\* stream ends before the closing quote, get() keeps returning EOF, which is never
\* equal to quote, so the loop never exits: closed is FALSE.
StringLoop(s, quote, str) ==
    IF s = <<>> THEN [closed |-> FALSE, input |-> s, str |-> str]
    ELSE IF Head(s) = quote THEN [closed |-> TRUE, input |-> Tail(s), str |-> str]
    ELSE IF Head(s) = "\\"
    THEN IF Tail(s) = <<>> THEN [closed |-> FALSE, input |-> <<>>, str |-> str]
         ELSE LET next == Head(Tail(s))
                  add  == CASE next \in {"'", "\""} -> <<next>>
                            [] next = "n" -> <<"\n">>
                            [] next = "t" -> <<"\t">>
                            [] OTHER -> <<"\\", next>>
              IN  StringLoop(Tail(Tail(s)), quote, str \o add)
    ELSE StringLoop(Tail(s), quote, Append(str, Head(s)))

\* Lexer::ParseString.  "Diverged" stands for the loop that never exits (it appends
\* to str without bound and can only be ended by memory exhaustion).
ParseString(L) ==
    LET r == StringLoop(Tail(L.input), Head(L.input), <<>>)
    IN  IF r.closed
        THEN [L EXCEPT !.input = r.input,
                       !.tokens = Append(L.tokens, ValTok("String", r.str))]
        ELSE [L EXCEPT !.input = r.input, !.status = "Diverged"]

\* Lexer::ParseLexem
ParseLexem(L) ==
    LET c == Head(L.input)
    IN  IF Peek(Tail(L.input)) = "="
        THEN [L EXCEPT !.input = Drop(L.input, 2),
                       !.tokens = Append(L.tokens, comparison_lexems(c))]
        ELSE [L EXCEPT !.input = Tail(L.input),
                       !.tokens = Append(L.tokens, ValTok("Char", c))]

\* the branch chain of Lexer::NextToken, after MoveToNextToken returned normally
Dispatch(L) ==
    LET c == Peek(L.input)
    IN  IF L.cur # Top(L.stack) THEN ParseIndent(L)
        ELSE IF isdigit(c) THEN ParseDigit(L)
        ELSE IF isalpha(c) \/ c = "_" THEN ParseIdentifier(L)
        ELSE IF c = "'" \/ c = "\"" THEN ParseString(L)
        ELSE IF c \in {"!", "<", ">", "="} THEN ParseLexem(L)
        ELSE IF c = "\n" THEN ParseNewLine(L)
        ELSE IF c = EOF THEN ParseEof(L)
        ELSE [L EXCEPT !.input = Ignore(L.input),
                       !.tokens = Append(L.tokens, ValTok("Char", c))]

\* Lexer::NextToken on the lexer fields L
LexNextToken(L) ==
    LET M == MoveToNextToken(L)
    IN  IF M.status # "ok" THEN M ELSE Dispatch(M)

\* --------------------------------------------------------------- inputs

\* the generated lines: leading spaces and what follows them
LineKinds ==
    { [indent |-> 0, body |-> <<"a">>],
      [indent |-> 1, body |-> <<"a">>],
      [indent |-> 2, body |-> <<"a">>],
      [indent |-> 4, body |-> <<"a">>],
      [indent |-> 0, body |-> <<>>],              \* blank line
      [indent |-> 1, body |-> <<>>],              \* whitespace-only lines
      [indent |-> 2, body |-> <<>>],
      [indent |-> 0, body |-> <<"#", "c">>],      \* comment-only lines
      [indent |-> 1, body |-> <<"#", "c">>],
      [indent |-> 2, body |-> <<"#", "c">>],
      [indent |-> 0, body |-> <<"i", "f", " ", "1", "2">>],
      [indent |-> 0, body |-> <<"a", " ", " ", " ", "#", "c">>],
      [indent |-> 0, body |-> <<"=", "=", "<", ":">>],
      [indent |-> 0, body |-> <<"'", "\\", "n", "a", "'">>],
      [indent |-> 0, body |-> <<"'", "a">>],      \* a string that is never closed
      [indent |-> 0, body |-> <<"\"", "\\">>] }   \* the input ends after a backslash

Spaces(n) == [i \in 1..n |-> " "]

Line(l) == Spaces(l.indent) \o l.body \o (IF l.nl THEN <<"\n">> ELSE <<>>)

RECURSIVE Flatten(_)
Flatten(ls) == IF ls = <<>> THEN <<>> ELSE Line(Head(ls)) \o Flatten(Tail(ls))

LineSet == { [indent |-> k.indent, body |-> k.body, nl |-> b] : k \in LineKinds, b \in BOOLEAN }

\* every line but the last ends with a newline character
Sources ==
    UNION { { ls \in [1..n -> LineSet] : \A i \in 1..(n - 1) : ls[i].nl } : n \in 0..MaxLines }

\* ----------------------------------------------------------- the lexer

LexerState ==
    [input |-> input_, cur |-> current_indent_size_, stack |-> indent_sizes_,
     tokens |-> tokens_, status |-> status]

SetLexer(L) ==
    /\ input_' = L.input
    /\ current_indent_size_' = L.cur
    /\ indent_sizes_' = L.stack
    /\ tokens_' = L.tokens
    /\ status' = L.status

EofCount(toks) == Cardinality({i \in 1..Len(toks) : toks[i].type = "Eof"})

\* the member initialisers and the push of Lexer::Lexer, over some input stream
Init ==
    /\ src \in Sources
    /\ input_ = Flatten(src)
    /\ current_indent_size_ = 0
    /\ indent_sizes_ = Push(<<>>, 0)
    /\ tokens_ = <<>>
    /\ status = "ok"
    /\ program = [type |-> "None"]
    /\ closure = <<>>
    /\ output = <<>>
    /\ outcome = [kind |-> "idle"]
    /\ heap = <<>>

\* the NextToken call that ends Lexer::Lexer
Lexer ==
    /\ status = "ok"
    /\ tokens_ = <<>>
    /\ SetLexer(LexNextToken(LexerState))
    /\ UNCHANGED <<src, evalvars>>

\* a call of Lexer::NextToken by the client
NextToken ==
    /\ status = "ok"
    /\ tokens_ # <<>>
    /\ EofCount(tokens_) < MaxEofReads
    /\ SetLexer(LexNextToken(LexerState))
    /\ UNCHANGED <<src, evalvars>>

Next == Lexer \/ NextToken

Spec == Init /\ [][Next]_vars

\* ------------------------------------------- inputs with wide indentation

\* leading spaces around the range of the uint8_t elements of indent_sizes_
WideIndents == {0, 2, 254, 256, 258}

WideLineSet ==
    { [indent |-> n, body |-> <<"a">>, nl |-> b] : n \in WideIndents, b \in BOOLEAN }

WideSources ==
    UNION { { ls \in [1..n -> WideLineSet] : \A i \in 1..(n - 1) : ls[i].nl } :
            n \in 1..MaxWideLines }

InitWide ==
    /\ src \in WideSources
    /\ input_ = Flatten(src)
    /\ current_indent_size_ = 0
    /\ indent_sizes_ = Push(<<>>, 0)
    /\ tokens_ = <<>>
    /\ status = "ok"
    /\ program = [type |-> "None"]
    /\ closure = <<>>
    /\ output = <<>>
    /\ outcome = [kind |-> "idle"]
    /\ heap = <<>>

\* a call of Lexer::NextToken by a client that reads at most MaxTokens tokens
NextTokenOfFew ==
    /\ Len(tokens_) < MaxTokens
    /\ NextToken

NextWide == Lexer \/ NextTokenOfFew

SpecWide == InitWide /\ [][NextWide]_vars

\* ------------------------------------------------- properties of the lexer

\* the lexer fields as MoveToNextToken leaves them at the start of the next call
Moved == MoveToNextToken(LexerState)

CountTok(toks, t) == Cardinality({i \in 1..Len(toks) : toks[i].type = t})

LastLine == src[Len(src)]

IsSkipLine(l) == l.body = <<>> \/ Head(l.body) = "#"

\* C1: once Eof has been emitted, as many Indent as Dedent tokens have been emitted
C1_IndentBalance ==
    IsTok(tokens_, "Eof") => CountTok(tokens_, "Indent") = CountTok(tokens_, "Dedent")

\* C2: the first token is never Newline and no two consecutive tokens are Newline
C2_NewlineIdempotence ==
    /\ tokens_ # <<>> => tokens_[1].type # "Newline"
    /\ \A i \in 1..(Len(tokens_) - 1) :
           ~(tokens_[i].type = "Newline" /\ tokens_[i + 1].type = "Newline")

\* blank lines lie at the start of the input and between two lines of code, and the
\* whole input has been read
C2_Witness ==
    /\ Len(src) = 3
    /\ src[1].body = <<>> /\ src[2].body = <<"a">> /\ src[3].body = <<>>
    /\ src[3].nl
    /\ IsTok(tokens_, "Eof")
    /\ CountTok(tokens_, "Newline") = 1

RECURSIVE RunLexer(_)
\* NextToken repeated up to the first Eof or the first failure
RunLexer(L) ==
    IF L.status # "ok" \/ IsTok(L.tokens, "Eof") THEN L ELSE RunLexer(LexNextToken(L))

\* the input without its blank, whitespace-only and comment-only lines
Strip(ls) == SelectSeq(ls, LAMBDA l : ~IsSkipLine(l))

HasQuote(ls) == \E i \in 1..Len(ls) : \E j \in 1..Len(ls[i].body) : ls[i].body[j] \in {"'", "\""}

Reference ==
    RunLexer([input |-> Flatten(Strip(src)), cur |-> 0, stack |-> <<0>>,
              tokens |-> <<>>, status |-> "ok"])

\* C3: when the lexer has read an input (without string literals) up to Eof or has
\* failed, its tokens and its failure are those of the same input with the blank,
\* whitespace-only and comment-only lines removed
C3_SkipLinesInvisible ==
    (~HasQuote(src) /\ (status # "ok" \/ (IsTok(tokens_, "Eof") /\ EofCount(tokens_) = 1)))
        => (tokens_ = Reference.tokens /\ status = Reference.status)

IsContent(tok) == tok.type \notin {"Indent", "Dedent"}

\* C4 as claimed: a call that finds fewer leading spaces than the top of the stack
\* pops one entry and emits one Dedent, content is emitted only when the top equals
\* the leading spaces, and a Dedent is never followed by an Indent
C4_OnlyDedents ==
    [][ /\ (status = "ok" /\ Moved.status = "ok" /\ Moved.cur < Top(Moved.stack))
            => (tokens_' = Append(tokens_, Tok("Dedent")) /\ indent_sizes_' = Pop(indent_sizes_))
        /\ (status' = "ok" /\ tokens_' # tokens_ /\ IsContent(CurrentToken(tokens_')))
            => current_indent_size_' = Top(indent_sizes_')
        /\ IsTok(tokens_, "Dedent") => ~IsTok(tokens_', "Indent") ]_vars

\* C4 amended: a call that finds fewer leading spaces n than the top of the stack pops
\* one entry and emits one Dedent, content is emitted only when the top equals n, and
\* an Indent follows a Dedent only when the pops went below n, in which case it
\* pushes n itself
C4_DedentResolution ==
    [][ /\ (status = "ok" /\ Moved.status = "ok" /\ Moved.cur < Top(Moved.stack))
            => (tokens_' = Append(tokens_, Tok("Dedent")) /\ indent_sizes_' = Pop(indent_sizes_))
        /\ (status' = "ok" /\ tokens_' # tokens_ /\ IsContent(CurrentToken(tokens_')))
            => current_indent_size_' = Top(indent_sizes_')
        /\ (IsTok(tokens_, "Dedent") /\ IsTok(tokens_', "Indent"))
            => /\ Top(indent_sizes_) < current_indent_size_
               /\ indent_sizes_' = Append(indent_sizes_, current_indent_size_)
               /\ current_indent_size_' = current_indent_size_ ]_vars

\* a line of 2 spaces under a block of 4 has been resolved by a Dedent and an Indent,
\* and its first content token has been emitted
C4_Witness ==
    /\ indent_sizes_ = <<0, 2>>
    /\ \E i \in 1..(Len(tokens_) - 2) :
           /\ tokens_[i].type = "Dedent" /\ tokens_[i + 1].type = "Indent"
           /\ tokens_[i + 2].type = "Id"

AtEndOfInput == status = "ok" /\ Moved.status = "ok" /\ Peek(Moved.input) = EOF

EofAfter(toks) == toks = <<>> \/ CurrentToken(toks).type \in {"Newline", "Dedent", "Eof"}

\* the token the call after this step would emit
NextEmitted == CurrentToken(LexNextToken(LexerState).tokens).type

CodeOnly == \A i \in 1..Len(src) : ~IsSkipLine(src[i])

\* C5 as claimed, on inputs that hold lines of code only: at end of input NextToken
\* emits Eof after Newline, Dedent, Eof or nothing, and otherwise a Newline that the
\* next call follows with Eof
C5_EofPolicy ==
    [][ (CodeOnly /\ AtEndOfInput) =>
          IF EofAfter(tokens_)
          THEN tokens_' = Append(tokens_, Tok("Eof"))
          ELSE /\ tokens_' = Append(tokens_, Tok("Newline"))
               /\ NextEmitted' = "Eof" ]_vars

\* C5 amended: at end of input with no change of indentation pending, NextToken emits
\* Eof after Newline, Dedent, Eof or nothing, and otherwise a Newline; the call after
\* that Newline emits Eof when the top of the indent stack is 0 and Dedent otherwise
C5_EofPolicyResolved ==
    [][ (AtEndOfInput /\ Moved.cur = Top(Moved.stack)) =>
          IF EofAfter(tokens_)
          THEN tokens_' = Append(tokens_, Tok("Eof"))
          ELSE /\ tokens_' = Append(tokens_, Tok("Newline"))
               /\ status' = "ok"
               /\ NextEmitted' = (IF Top(indent_sizes_') = 0 THEN "Eof" ELSE "Dedent") ]_vars

\* the input ends in an indented line of code without a line end: the lexer has
\* emitted the synthetic Newline, the Dedent and Eof
C5_Witness ==
    /\ src # <<>> /\ ~LastLine.nl /\ LastLine.body = <<"a">> /\ LastLine.indent = 2
    /\ Len(tokens_) >= 4
    /\ tokens_[Len(tokens_) - 3].type = "Id"
    /\ tokens_[Len(tokens_) - 2].type = "Newline"
    /\ tokens_[Len(tokens_) - 1].type = "Dedent"
    /\ tokens_[Len(tokens_)].type = "Eof"

RECURSIVE LogicalLineIndent(_)
\* the leading spaces of the first line of s that holds more than spaces and a
\* comment, or -1 when s has no such line
LogicalLineIndent(s) ==
    LET n == CountSpaces(s)
        r == Drop(s, n)
    IN  IF r = <<>> THEN -1
        ELSE IF Head(r) = "\n" THEN LogicalLineIndent(Tail(r))
        ELSE IF Head(r) = "#"
        THEN (IF SkipToLineEnd(r) = <<>> THEN -1 ELSE LogicalLineIndent(Tail(SkipToLineEnd(r))))
        ELSE n

\* what C6 says of one NextToken call
C6_Step ==
    /\ status = "ok" =>
         ((status' = "LexerError")
             <=> (/\ IsTok(tokens_, "Newline")
                  /\ LogicalLineIndent(input_) >= 0
                  /\ LogicalLineIndent(input_) % 2 = 1))
    /\ status' = "LexerError" => (tokens_' = tokens_ /\ indent_sizes_' = indent_sizes_)
    /\ (status = "ok" /\ tokens_ # <<>> /\ ~IsTok(tokens_, "Newline"))
         => /\ status' # "LexerError"
            /\ current_indent_size_' = current_indent_size_
            /\ (IsContent(CurrentToken(tokens_')) => indent_sizes_' = indent_sizes_)

\* C6: NextToken raises LexerError exactly when the current token is Newline and the
\* next logical line starts with an odd number of spaces, and then leaves the tokens
\* and the indent stack alone; a call in the middle of a line changes neither
\* current_indent_size_ nor the indent stack unless it emits Indent or Dedent
C6_OddIndentError ==
    [][ C6_Step ]_vars

\* NextToken is about to read a string literal whose closing quote is missing
UnterminatedAhead ==
    /\ status = "ok" /\ Moved.status = "ok"
    /\ Moved.cur = Top(Moved.stack)
    /\ Peek(Moved.input) \in {"'", "\""}
    /\ \A i \in 2..Len(Moved.input) :
           Moved.input[i] = Head(Moved.input) => Moved.input[i - 1] = "\\"

\* C7: on a string literal whose closing quote is missing NextToken raises LexerError
\* and emits no token
C7_UnterminatedString ==
    [][ UnterminatedAhead => (status' = "LexerError" /\ tokens_' = tokens_) ]_vars

\* C8: after Eof every NextToken call succeeds and emits Eof again, so that nothing
\* but Eof follows an Eof
C8_EofAbsorbing ==
    [][ IsTok(tokens_, "Eof") =>
          /\ status' = "ok"
          /\ tokens_' = Append(tokens_, Tok("Eof"))
          /\ CurrentToken(tokens_').type = "Eof" ]_vars

\* NextToken has been called after the first Eof
C8_Witness ==
    /\ Len(tokens_) >= 3
    /\ tokens_[Len(tokens_) - 1].type = "Eof"
    /\ tokens_[Len(tokens_)].type = "Eof"
    /\ tokens_[1].type = "Id"

\* ============================================================ the evaluator

\* -------------------------------------------------------------- values

\* ObjectHolder::None(): the empty holder
NoneValue == [kind |-> "None"]

Number(n) == [kind |-> "Number", n |-> n]

String(s) == [kind |-> "String", s |-> s]

Bool(b) == [kind |-> "Bool", b |-> b]

\* a method of a class: runtime::Method
Method(name, formal_params, body) ==
    [name |-> name, formal_params |-> formal_params, body |-> body]

\* runtime::Class; parent is a Class or nullptr
Class(name, methods, parent) == [name |-> name, methods |-> methods, parent |-> parent]

\* a holder of a runtime::Class
ClassValue(cls) == [kind |-> "Class", cls |-> cls]

\* a holder of the runtime::ClassInstance object id, whose class is cls
Instance(id, cls) == [kind |-> "Instance", id |-> id, cls |-> cls]

\* runtime::IsTrue
IsTrue(object) ==
    CASE object.kind = "Number" -> object.n # 0
      [] object.kind = "String" -> object.s # <<>>
      [] object.kind = "Bool"   -> object.b
      [] OTHER                  -> FALSE

DigitChar(d) ==
    CASE d = 0 -> "0" [] d = 1 -> "1" [] d = 2 -> "2" [] d = 3 -> "3" [] d = 4 -> "4"
      [] d = 5 -> "5" [] d = 6 -> "6" [] d = 7 -> "7" [] d = 8 -> "8" [] d = 9 -> "9"

RECURSIVE Decimal(_)
Decimal(n) == IF n < 10 THEN <<DigitChar(n)>> ELSE Append(Decimal(n \div 10), DigitChar(n % 10))

\* Number::Print: the decimal text of the integer
NumberPrint(n) == IF n < 0 THEN <<"-">> \o Decimal(0 - n) ELSE Decimal(n)

\* Bool::Print
BoolPrint(b) == IF b THEN <<"T", "r", "u", "e">> ELSE <<"F", "a", "l", "s", "e">>

\* String::Print: the characters as they are
StringPrint(s) == s

\* Object::Print of a non-empty holder
ObjectPrint(object) ==
    CASE object.kind = "Number" -> NumberPrint(object.n)
      [] object.kind = "String" -> StringPrint(object.s)
      [] object.kind = "Bool"   -> BoolPrint(object.b)

\* -------------------------------------------------------------- nodes

NumericConst(n) == [type |-> "NumericConst", value_ |-> Number(n)]

StringConst(s) == [type |-> "StringConst", value_ |-> String(s)]

BoolConst(b) == [type |-> "BoolConst", value_ |-> Bool(b)]

None == [type |-> "None"]

VariableValue(ids) == [type |-> "VariableValue", dotted_ids_ |-> ids]

Assignment(var, rv) == [type |-> "Assignment", var_ |-> var, rv_ |-> rv]

\* ast::Print
PrintStatement(args) == [type |-> "Print", args_ |-> args]

Compound(stmts) == [type |-> "Compound", statements_ |-> stmts]

MethodBody(body) == [type |-> "MethodBody", body_ |-> body]

Return(statement) == [type |-> "Return", statement_ |-> statement]

\* the else_body of an IfElse that has none
nullptr == [type |-> "nullptr"]

IfElse(condition, if_body, else_body) ==
    [type |-> "IfElse", condition_ |-> condition, if_body_ |-> if_body,
     else_body_ |-> else_body]

FieldAssignment(object, field_name, rv) ==
    [type |-> "FieldAssignment", object_ |-> object, field_name_ |-> field_name, rv_ |-> rv]

MethodCall(object, method, args) ==
    [type |-> "MethodCall", object_ |-> object, method_ |-> method, args_ |-> args]

\* the node owns one ClassInstance object of the class cls: id is that object
NewInstance(id, cls, args) ==
    [type |-> "NewInstance", class_ |-> Instance(id, cls), args_ |-> args]

Add(lhs, rhs) == [type |-> "Add", lhs_ |-> lhs, rhs_ |-> rhs]

Div(lhs, rhs) == [type |-> "Div", lhs_ |-> lhs, rhs_ |-> rhs]

Or(lhs, rhs) == [type |-> "Or", lhs_ |-> lhs, rhs_ |-> rhs]

And(lhs, rhs) == [type |-> "And", lhs_ |-> lhs, rhs_ |-> rhs]

Not(arg) == [type |-> "Not", arg_ |-> arg]

\* cmp names the comparator: "Equal" or "Less"
Comparison(cmp, lhs, rhs) == [type |-> "Comparison", cmp_ |-> cmp, lhs_ |-> lhs, rhs_ |-> rhs]

ClassDefinition(cls) == [type |-> "ClassDefinition", class_ |-> ClassValue(cls)]

\* ------------------------------------------------ how an Execute call ends

\* Execute returns the holder v
Returned(v, c, ctx) == [kind |-> "value", val |-> v, closure |-> c, context |-> ctx]

\* Execute throws std::runtime_error(what)
RuntimeError(what, c, ctx) ==
    [kind |-> "runtime_error", val |-> [what |-> what], closure |-> c, context |-> ctx]

\* Execute throws the ObjectHolder v (the return-carrier)
Thrown(v, c, ctx) == [kind |-> "return", val |-> v, closure |-> c, context |-> ctx]

\* Execute dereferences a null pointer
Undefined(c, ctx) ==
    [kind |-> "undefined", val |-> [what |-> "null dereference"], closure |-> c, context |-> ctx]

\* closure[name] = v
Bind(c, name, v) == [x \in (DOMAIN c) \cup {name} |-> IF x = name THEN v ELSE c[x]]

RECURSIVE Execute(_, _, _)

\* an exception leaves the function: the evaluation goes on with F of what r has
\* returned, unless r has thrown
Then(r, F(_)) == IF r.kind # "value" THEN r ELSE F(r)

\* ValueStatement<T>::Execute
ExecuteValueStatement(node, c, ctx) == Returned(node.value_, c, ctx)

\* ast::None::Execute
ExecuteNone(node, c, ctx) == Returned(NoneValue, c, ctx)

\* ClassInstance::Fields of the object id: empty until a field is assigned
Fields(ctx, id) == IF id \in DOMAIN ctx.heap THEN ctx.heap[id] ELSE <<>>

RECURSIVE Lookup(_, _, _, _)
\* the loop of VariableValue::Execute: closure_ptr points to the closure env, ids are
\* the identifiers not yet looked up; TryAs<ClassInstance>() of a holder of another
\* kind is a null pointer, and ->Fields() dereferences it
Lookup(ids, env, c, ctx) ==
    IF Head(ids) \notin DOMAIN env
    THEN RuntimeError(<<"variable not found", Head(ids)>>, c, ctx)
    ELSE IF Len(ids) = 1 THEN Returned(env[Head(ids)], c, ctx)
    ELSE IF env[Head(ids)].kind # "Instance" THEN Undefined(c, ctx)
    ELSE Lookup(Tail(ids), Fields(ctx, env[Head(ids)].id), c, ctx)

\* ast::VariableValue::Execute
ExecuteVariableValue(node, c, ctx) == Lookup(node.dotted_ids_, c, c, ctx)

\* ast::Assignment::Execute
ExecuteAssignment(node, c, ctx) ==
    LET r == Execute(node.rv_, c, ctx)
    IN  IF r.kind # "value" THEN r
        ELSE Returned(r.val, Bind(r.closure, node.var_, r.val), r.context)

RECURSIVE GetMethod_ParentFirst(_, _)
\* a GetMethod that asks the parents before the class itself
GetMethod_ParentFirst(cls, name) ==
    LET found == { i \in 1..Len(cls.methods) : cls.methods[i].name = name }
        it    == CHOOSE i \in found : \A j \in found : i <= j
        up    == IF cls.parent = nullptr THEN nullptr
                 ELSE GetMethod_ParentFirst(cls.parent, name)
    IN  IF up # nullptr THEN up
        ELSE IF found = {} THEN nullptr
        ELSE cls.methods[it]

RECURSIVE GetMethod(_, _)
\* Class::GetMethod: nullptr, or the first method of that name in cls, else in its parents
GetMethod(cls, name) ==
    LET found == { i \in 1..Len(cls.methods) : cls.methods[i].name = name }
        it    == CHOOSE i \in found : \A j \in found : i <= j
    IN  IF found = {} /\ cls.parent = nullptr THEN nullptr
        ELSE IF found = {} THEN GetMethod(cls.parent, name)
        ELSE cls.methods[it]

\* ClassInstance::HasMethod
HasMethod(cls, method, argument_count) ==
    LET method_ptr == GetMethod(cls, method)
    IN  method_ptr # nullptr /\ Len(method_ptr.formal_params) = argument_count

RECURSIVE BindParams(_, _, _, _)
\* the loop of ClassInstance::Call over actual_args[i..]
BindParams(c, formal_params, actual_args, i) ==
    IF i > Len(actual_args) THEN c
    ELSE BindParams(Bind(c, formal_params[i], actual_args[i]), formal_params, actual_args, i + 1)

\* ClassInstance::Call: the closure of the result is the closure of the body
Call(instance, method, actual_args, ctx) ==
    IF ~HasMethod(instance.cls, method, Len(actual_args))
    THEN RuntimeError(<<"no implementation", method>>, <<>>, ctx)
    ELSE LET method_ptr == GetMethod(instance.cls, method)
             self       == Bind(<<>>, "self", instance)
         IN  Execute(method_ptr.body,
                     BindParams(self, method_ptr.formal_params, actual_args, 1), ctx)

RECURSIVE ExecuteArgumentsFrom(_, _, _, _, _)
ExecuteArgumentsFrom(executed_args, args, i, c, ctx) ==
    IF i > Len(args) THEN Returned(executed_args, c, ctx)
    ELSE Then(Execute(args[i], c, ctx), LAMBDA r :
              ExecuteArgumentsFrom(Append(executed_args, r.val), args, i + 1,
                                   r.closure, r.context))

\* ExecuteArguments: the holders of the arguments, in the val field
ExecuteArguments(args, c, ctx) == ExecuteArgumentsFrom(<<>>, args, 1, c, ctx)

\* os << this: the address of the object
AddressPrint(id) == <<"0", "x">> \o Decimal(id)

\* Class::Print
ClassPrint(cls) == <<"C", "l", "a", "s", "s", " ">> \o cls.name

RECURSIVE PrintObject(_, _, _)
\* object->Print(ss, context) of a non-empty holder: ss is carried in the val field;
\* ClassInstance::Print calls __str__ and prints what it returns, an empty holder
\* returned by __str__ is dereferenced
PrintObject(ss, object, ctx) ==
    IF object.kind = "Instance"
    THEN IF HasMethod(object.cls, "__str__", 0)
         THEN Then(Call(object, "__str__", <<>>, ctx), LAMBDA r :
                   IF r.val.kind = "None" THEN Undefined(<<>>, r.context)
                   ELSE PrintObject(ss, r.val, r.context))
         ELSE Returned(ss \o AddressPrint(object.id), <<>>, ctx)
    ELSE IF object.kind = "Class" THEN Returned(ss \o ClassPrint(object.cls), <<>>, ctx)
    ELSE Returned(ss \o ObjectPrint(object), <<>>, ctx)

\* an AppendByStatement that appends nothing for an empty holder
AppendByStatement_SkipNone(ss, statement, c, ctx) ==
    LET r == Execute(statement, c, ctx)
    IN  IF r.kind # "value" THEN r
        ELSE IF r.val.kind = "None" THEN Returned(ss, r.closure, r.context)
        ELSE [PrintObject(ss, r.val, r.context) EXCEPT !.closure = r.closure]

\* AppendByStatement: ss is carried in the val field
AppendByStatement(ss, statement, c, ctx) ==
    Then(Execute(statement, c, ctx), LAMBDA r :
         IF r.val.kind = "None"
         THEN Returned(ss \o <<"N", "o", "n", "e">>, r.closure, r.context)
         ELSE [PrintObject(ss, r.val, r.context) EXCEPT !.closure = r.closure])

RECURSIVE PrintArgs(_, _, _, _, _)
\* the for_each of Print::Execute over args_[i..]
PrintArgs(ss, args, i, c, ctx) ==
    IF i > Len(args) THEN Returned(ss, c, ctx)
    ELSE Then(AppendByStatement(Append(ss, " "), args[i], c, ctx), LAMBDA r :
              PrintArgs(r.val, args, i + 1, r.closure, r.context))

RECURSIVE PrintArgs_Unbuffered(_, _, _, _)
PrintArgs_Unbuffered(args, i, c, ctx) ==
    IF i > Len(args) THEN Returned(NoneValue, c, [ctx EXCEPT !.output = Append(@, "\n")])
    ELSE LET r == AppendByStatement(IF i = 1 THEN <<>> ELSE <<" ">>, args[i], c, ctx)
         IN  IF r.kind # "value" THEN r
             ELSE PrintArgs_Unbuffered(args, i + 1, r.closure,
                                       [r.context EXCEPT !.output = @ \o r.val])

\* a Print that writes the text of each argument to the output stream as soon as the
\* argument is evaluated
ExecutePrint_Unbuffered(node, c, ctx) == PrintArgs_Unbuffered(node.args_, 1, c, ctx)

\* ast::Print::Execute
ExecutePrint(node, c, ctx) ==
    Then(IF node.args_ = <<>> THEN Returned(<<>>, c, ctx)
         ELSE Then(AppendByStatement(<<>>, node.args_[1], c, ctx), LAMBDA first :
                   PrintArgs(first.val, node.args_, 2, first.closure, first.context)),
         LAMBDA all :
             Returned(NoneValue, all.closure,
                      [all.context EXCEPT !.output = @ \o StringPrint(Append(all.val, "\n"))]))

RECURSIVE CompoundFrom_Continue(_, _, _, _)
CompoundFrom_Continue(stmts, i, c, ctx) ==
    IF i > Len(stmts) THEN Returned(NoneValue, c, ctx)
    ELSE LET r == Execute(stmts[i], c, ctx)
         IN  IF r.kind \notin {"value", "return"} THEN r
             ELSE CompoundFrom_Continue(stmts, i + 1, r.closure, r.context)

\* a Compound that goes on with the next statement when a statement has thrown the
\* return-carrier
ExecuteCompound_Continue(node, c, ctx) == CompoundFrom_Continue(node.statements_, 1, c, ctx)

RECURSIVE CompoundFrom(_, _, _, _)
\* the loop of Compound::Execute over statements_[i..]
CompoundFrom(stmts, i, c, ctx) ==
    IF i > Len(stmts) THEN Returned(NoneValue, c, ctx)
    ELSE LET r == Execute(stmts[i], c, ctx)
         IN  IF r.kind # "value" THEN r
             ELSE CompoundFrom(stmts, i + 1, r.closure, r.context)

\* ast::Compound::Execute
ExecuteCompound(node, c, ctx) == CompoundFrom(node.statements_, 1, c, ctx)

\* ast::IfElse::Execute
ExecuteIfElse(node, c, ctx) ==
    LET r == Execute(node.condition_, c, ctx)
    IN  IF r.kind # "value" THEN r
        ELSE IF IsTrue(r.val) THEN Execute(node.if_body_, r.closure, r.context)
        ELSE IF node.else_body_ # nullptr THEN Execute(node.else_body_, r.closure, r.context)
        ELSE Returned(NoneValue, r.closure, r.context)

\* ast::Return::Execute
ExecuteReturn(node, c, ctx) ==
    LET r == Execute(node.statement_, c, ctx)
    IN  IF r.kind # "value" THEN r ELSE Thrown(r.val, r.closure, r.context)

\* ast::MethodBody::Execute
ExecuteMethodBody(node, c, ctx) ==
    LET r == Execute(node.body_, c, ctx)
    IN  IF r.kind = "return" THEN Returned(r.val, r.closure, r.context)
        ELSE IF r.kind = "value" THEN Returned(NoneValue, r.closure, r.context)
        ELSE r

\* a FieldAssignment that binds the field in a copy of the instance
ExecuteFieldAssignment_Copy(node, c, ctx) ==
    LET o == ExecuteVariableValue(node.object_, c, ctx)
    IN  IF o.kind # "value" THEN o
        ELSE IF o.val.kind # "Instance" THEN Returned(NoneValue, o.closure, o.context)
        ELSE Execute(node.rv_, o.closure, o.context)

\* ast::FieldAssignment::Execute: the right operand of = is evaluated before
\* Fields()[field_name_]
ExecuteFieldAssignment(node, c, ctx) ==
    Then(ExecuteVariableValue(node.object_, c, ctx), LAMBDA o :
         IF o.val.kind # "Instance" THEN Returned(NoneValue, o.closure, o.context)
         ELSE Then(Execute(node.rv_, o.closure, o.context), LAMBDA r :
                   Returned(r.val, r.closure,
                            [r.context EXCEPT !.heap =
                                Bind(@, o.val.id, Bind(Fields(r.context, o.val.id),
                                                       node.field_name_, r.val))])))

\* a MethodCall that executes the body in the closure of the caller, extended by self
\* and the parameters
ExecuteMethodCall_CallerClosure(node, c, ctx) ==
    LET o == Execute(node.object_, c, ctx)
        a == ExecuteArguments(node.args_, o.closure, o.context)
        method_ptr == GetMethod(o.val.cls, node.method_)
    IN  IF o.kind # "value" THEN o
        ELSE IF ~(o.val.kind = "Instance"
                  /\ HasMethod(o.val.cls, node.method_, Len(node.args_)))
        THEN RuntimeError(<<"not a class instance">>, o.closure, o.context)
        ELSE IF a.kind # "value" THEN a
        ELSE Execute(method_ptr.body,
                     BindParams(Bind(a.closure, "self", o.val), method_ptr.formal_params,
                                a.val, 1),
                     a.context)

\* ast::MethodCall::Execute
ExecuteMethodCall(node, c, ctx) ==
    Then(Execute(node.object_, c, ctx), LAMBDA o :
         IF ~(o.val.kind = "Instance"
              /\ HasMethod(o.val.cls, node.method_, Len(node.args_)))
         THEN RuntimeError(<<"not a class instance">>, o.closure, o.context)
         ELSE Then(ExecuteArguments(node.args_, o.closure, o.context), LAMBDA a :
                   [Call(o.val, node.method_, a.val, a.context) EXCEPT !.closure = a.closure]))

\* ast::NewInstance::Execute
ExecuteNewInstance(node, c, ctx) ==
    IF HasMethod(node.class_.cls, "__init__", Len(node.args_))
    THEN Then(ExecuteArguments(node.args_, c, ctx), LAMBDA a :
              [Then(Call(node.class_, "__init__", a.val, a.context), LAMBDA r :
                    Returned(node.class_, a.closure, r.context))
                  EXCEPT !.closure = a.closure])
    ELSE Returned(node.class_, c, ctx)

\* ast::Add::Execute
ExecuteAdd(node, c, ctx) ==
    Then(Execute(node.lhs_, c, ctx), LAMBDA lhs_holder :
    Then(Execute(node.rhs_, lhs_holder.closure, lhs_holder.context), LAMBDA rhs_holder :
         IF lhs_holder.val.kind = "Number" /\ rhs_holder.val.kind = "Number"
         THEN Returned(Number(lhs_holder.val.n + rhs_holder.val.n),
                       rhs_holder.closure, rhs_holder.context)
         ELSE IF lhs_holder.val.kind = "String" /\ rhs_holder.val.kind = "String"
         THEN Returned(String(lhs_holder.val.s \o rhs_holder.val.s),
                       rhs_holder.closure, rhs_holder.context)
         ELSE IF lhs_holder.val.kind = "Instance" /\ HasMethod(lhs_holder.val.cls, "__add__", 1)
         THEN [Call(lhs_holder.val, "__add__", <<rhs_holder.val>>, rhs_holder.context)
                  EXCEPT !.closure = rhs_holder.closure]
         ELSE RuntimeError(<<"cannot add arguments">>, rhs_holder.closure,
                           rhs_holder.context)))

\* the quotient of int operands: truncated towards zero
Quotient(a, b) ==
    LET abs(x) == IF x < 0 THEN 0 - x ELSE x
        q      == abs(a) \div abs(b)
    IN  IF (a < 0) = (b < 0) THEN q ELSE 0 - q

\* ast::Div::Execute
ExecuteDiv(node, c, ctx) ==
    Then(Execute(node.lhs_, c, ctx), LAMBDA lhs_holder :
    Then(Execute(node.rhs_, lhs_holder.closure, lhs_holder.context), LAMBDA rhs_holder :
         IF lhs_holder.val.kind = "Number" /\ rhs_holder.val.kind = "Number"
         THEN IF rhs_holder.val.n = 0
              THEN RuntimeError(<<"try to divide to zero">>, rhs_holder.closure,
                                rhs_holder.context)
              ELSE Returned(Number(Quotient(lhs_holder.val.n, rhs_holder.val.n)),
                            rhs_holder.closure, rhs_holder.context)
         ELSE RuntimeError(<<"cannot divide arguments">>, rhs_holder.closure,
                           rhs_holder.context)))

\* ast::Or::Execute
ExecuteOr(node, c, ctx) ==
    Then(Execute(node.lhs_, c, ctx), LAMBDA lhs :
         IF ~IsTrue(lhs.val)
         THEN Then(Execute(node.rhs_, lhs.closure, lhs.context), LAMBDA rhs :
                   Returned(Bool(IsTrue(rhs.val)), rhs.closure, rhs.context))
         ELSE Returned(Bool(TRUE), lhs.closure, lhs.context))

\* an And that evaluates both operands before it looks at the first
ExecuteAnd_Eager(node, c, ctx) ==
    LET lhs == Execute(node.lhs_, c, ctx)
        rhs == Execute(node.rhs_, lhs.closure, lhs.context)
    IN  IF lhs.kind # "value" THEN lhs
        ELSE IF rhs.kind # "value" THEN rhs
        ELSE Returned(Bool(IsTrue(lhs.val) /\ IsTrue(rhs.val)), rhs.closure, rhs.context)

\* ast::And::Execute
ExecuteAnd(node, c, ctx) ==
    Then(Execute(node.lhs_, c, ctx), LAMBDA lhs :
         IF IsTrue(lhs.val)
         THEN Then(Execute(node.rhs_, lhs.closure, lhs.context), LAMBDA rhs :
                   Returned(Bool(IsTrue(rhs.val)), rhs.closure, rhs.context))
         ELSE Returned(Bool(FALSE), lhs.closure, lhs.context))

\* ast::Not::Execute
ExecuteNot(node, c, ctx) ==
    Then(Execute(node.arg_, c, ctx), LAMBDA arg :
         Returned(Bool(~IsTrue(arg.val)), arg.closure, arg.context))

\* the value of a char of the texts of this model
CharCode(ch) ==
    CASE ch = " " -> 32 [] ch = "A" -> 65 [] ch = "B" -> 66 [] ch = "a" -> 97 [] ch = "b" -> 98
      [] OTHER -> 127

RECURSIVE StringLess(_, _)
\* operator< of std::string
StringLess(a, b) ==
    IF b = <<>> THEN FALSE
    ELSE IF a = <<>> THEN TRUE
    ELSE IF Head(a) # Head(b) THEN CharCode(Head(a)) < CharCode(Head(b))
    ELSE StringLess(Tail(a), Tail(b))

\* the call of a comparison hook of Equal and Less: TryAs<Bool>() of what the hook
\* returned is a null pointer unless that is a Bool, and ->GetValue() dereferences it
CallHook(lhs, hook, rhs, ctx) ==
    Then(Call(lhs, hook, <<rhs>>, ctx), LAMBDA r :
         IF r.val.kind # "Bool" THEN Undefined(<<>>, r.context)
         ELSE Returned(r.val.b, <<>>, r.context))

\* runtime::Equal: the bool it returns is carried in the val field
Equal(lhs, rhs, ctx) ==
    IF lhs.kind = "Number" /\ rhs.kind = "Number" THEN Returned(lhs.n = rhs.n, <<>>, ctx)
    ELSE IF lhs.kind = "String" /\ rhs.kind = "String" THEN Returned(lhs.s = rhs.s, <<>>, ctx)
    ELSE IF lhs.kind = "Bool" /\ rhs.kind = "Bool" THEN Returned(lhs.b = rhs.b, <<>>, ctx)
    ELSE IF lhs.kind = "Instance" /\ HasMethod(lhs.cls, "__eq__", 1)
    THEN CallHook(lhs, "__eq__", rhs, ctx)
    ELSE IF lhs.kind = "None" /\ rhs.kind = "None" THEN Returned(TRUE, <<>>, ctx)
    ELSE RuntimeError(<<"no viable equal operator">>, <<>>, ctx)

\* runtime::Less: the bool it returns is carried in the val field
Less(lhs, rhs, ctx) ==
    IF lhs.kind = "Number" /\ rhs.kind = "Number" THEN Returned(lhs.n < rhs.n, <<>>, ctx)
    ELSE IF lhs.kind = "String" /\ rhs.kind = "String"
    THEN Returned(StringLess(lhs.s, rhs.s), <<>>, ctx)
    ELSE IF lhs.kind = "Bool" /\ rhs.kind = "Bool" THEN Returned(~lhs.b /\ rhs.b, <<>>, ctx)
    ELSE IF lhs.kind = "Instance" /\ HasMethod(lhs.cls, "__lt__", 1)
    THEN CallHook(lhs, "__lt__", rhs, ctx)
    ELSE RuntimeError(<<"no viable comparator">>, <<>>, ctx)

\* ast::Comparison::Execute; the language leaves the order of the two operand
\* evaluations open, lhs_ is taken first here
ExecuteComparison(node, c, ctx) ==
    Then(Execute(node.lhs_, c, ctx), LAMBDA lhs :
    Then(Execute(node.rhs_, lhs.closure, lhs.context), LAMBDA rhs :
         [Then(IF node.cmp_ = "Equal" THEN Equal(lhs.val, rhs.val, rhs.context)
                                      ELSE Less(lhs.val, rhs.val, rhs.context),
               LAMBDA cmp : Returned(Bool(cmp.val), rhs.closure, cmp.context))
             EXCEPT !.closure = rhs.closure]))

\* ast::ClassDefinition::Execute
ExecuteClassDefinition(node, c, ctx) ==
    Returned(NoneValue, Bind(c, node.class_.cls.name, node.class_), ctx)

\* Executable::Execute: the virtual call
Execute(node, c, ctx) ==
    CASE node.type \in {"NumericConst", "StringConst", "BoolConst"}
                                      -> ExecuteValueStatement(node, c, ctx)
      [] node.type = "None"           -> ExecuteNone(node, c, ctx)
      [] node.type = "VariableValue"  -> ExecuteVariableValue(node, c, ctx)
      [] node.type = "Assignment"     -> ExecuteAssignment(node, c, ctx)
      [] node.type = "Print"          -> ExecutePrint(node, c, ctx)
      [] node.type = "Compound"       -> ExecuteCompound(node, c, ctx)
      [] node.type = "IfElse"         -> ExecuteIfElse(node, c, ctx)
      [] node.type = "Return"         -> ExecuteReturn(node, c, ctx)
      [] node.type = "MethodBody"     -> ExecuteMethodBody(node, c, ctx)
      [] node.type = "FieldAssignment" -> ExecuteFieldAssignment(node, c, ctx)
      [] node.type = "MethodCall"     -> ExecuteMethodCall(node, c, ctx)
      [] node.type = "NewInstance"    -> ExecuteNewInstance(node, c, ctx)
      [] node.type = "Add"            -> ExecuteAdd(node, c, ctx)
      [] node.type = "Div"            -> ExecuteDiv(node, c, ctx)
      [] node.type = "Or"             -> ExecuteOr(node, c, ctx)
      [] node.type = "And"            -> ExecuteAnd(node, c, ctx)
      [] node.type = "Not"            -> ExecuteNot(node, c, ctx)
      [] node.type = "Comparison"     -> ExecuteComparison(node, c, ctx)
      [] node.type = "ClassDefinition" -> ExecuteClassDefinition(node, c, ctx)

\* ------------------------------------------------------------- programs

Print12 == PrintStatement(<<NumericConst(12)>>)

PrintX == PrintStatement(<<VariableValue(<<"x">>), None>>)

AssignX == Assignment("x", NumericConst(5))

Return3 == Return(NumericConst(3))

ReturnX == Return(VariableValue(<<"x">>))

\* the statements a generated Compound is made of
Items ==
    { Print12, PrintX, AssignX, Return3, ReturnX,
      IfElse(VariableValue(<<"n">>), Return(StringConst(<<"b", "i", "g">>)), nullptr),
      IfElse(VariableValue(<<"n">>),
             Compound(<<IfElse(BoolConst(TRUE), Return3, nullptr), Print12>>),
             Return(None)),
      IfElse(StringConst(<<>>), Print12, Compound(<<AssignX, ReturnX>>)),
      Compound(<<AssignX, Compound(<<ReturnX, Print12>>), Print12>>),
      MethodBody(Return3),
      MethodBody(Compound(<<AssignX, ReturnX, Print12>>)) }

Bodies ==
    Items \cup { Compound(stmts) : stmts \in UNION { [1..k -> Items] : k \in 0..MaxStatements } }

\* a method body as the parser builds it, or a statement executed at top level
Programs == Bodies \cup { MethodBody(b) : b \in Bodies }

\* the closure of a call with one argument n
Closures == { [x \in {"n"} |-> v] : v \in {Number(0), Number(7)} }

\* ------------------------------------------------------- the evaluation

InitEval ==
    /\ program \in Programs
    /\ closure \in Closures
    /\ output = <<>>
    /\ outcome = [kind |-> "idle"]
    /\ heap = <<>>
    /\ src = <<>>
    /\ input_ = <<>>
    /\ current_indent_size_ = 0
    /\ indent_sizes_ = <<0>>
    /\ tokens_ = <<>>
    /\ status = "idle"

\* the outermost call program->Execute(closure, context)
ExecuteProgram ==
    /\ outcome.kind = "idle"
    /\ LET r == Execute(program, closure, [output |-> output, heap |-> heap])
       IN  /\ outcome' = [kind |-> r.kind, val |-> r.val]
           /\ closure' = r.closure
           /\ output' = r.context.output
           /\ heap' = r.context.heap
    /\ UNCHANGED <<program, lexvars>>

NextEval == ExecuteProgram

SpecEval == InitEval /\ [][NextEval]_vars

\* ------------------------------------------- programs that use objects

\* a class without methods
Box == Class(<<"B", "o", "x">>, <<>>, nullptr)

\* a class whose __init__ takes one argument
BoxInit ==
    Class(<<"B", "o", "x">>,
          <<Method("__init__", <<"v">>,
                   MethodBody(FieldAssignment(VariableValue(<<"self">>), "f",
                                              VariableValue(<<"v">>))))>>,
          nullptr)

\* make() evaluates one NewInstance node of the class cls with the arguments args
Maker(cls, args) ==
    Class(<<"M", "a", "k", "e", "r">>,
          <<Method("make", <<>>, MethodBody(Return(NewInstance(2, cls, args))))>>, nullptr)

CallMake == MethodCall(VariableValue(<<"m">>), "make", <<>>)

\* m = Maker(); a = m.make(); a.f = v; b = m.make()
MakeTwice(cls, v) ==
    Compound(<<Assignment("m", NewInstance(1, Maker(cls, <<>>), <<>>)),
               Assignment("a", CallMake),
               FieldAssignment(VariableValue(<<"a">>), "f", v),
               Assignment("b", CallMake)>>)

Literals == {NumericConst(1), NumericConst(0), StringConst(<<"a">>), BoolConst(TRUE), None}

MakeTwicePrograms == { MakeTwice(cls, v) : cls \in {Box, BoxInit}, v \in Literals }

\* the class K of one method f(p, q) with the given body
K(body) == Class(<<"K">>, <<Method("f", <<"p", "q">>, MethodBody(body))>>, nullptr)

\* K().f(1, n), where the body of f is: w = 99; return name
MethodEnv(w, name) ==
    MethodCall(NewInstance(1, K(Compound(<<Assignment(w, NumericConst(99)),
                                          Return(VariableValue(<<name>>))>>)), <<>>),
               "f", <<NumericConst(1), VariableValue(<<"n">>)>>)

\* the names the body of f assigns and reads
BodyNames == {"self", "p", "q", "n", "x", "w"}

MethodEnvPrograms == { MethodEnv(w, name) : w \in BodyNames \ {"self"}, name \in BodyNames }

\* the closure of the caller of f
CallerClosures == { [v \in {"n", "x"} |-> IF v = "n" THEN n ELSE String(<<"a">>)] :
                    n \in {Number(0), Number(1), Number(7)} }

\* a method body that prints text, sets the field c of self and returns result
NoisyBody(text, result) ==
    MethodBody(Compound(<<PrintStatement(<<StringConst(text)>>),
                          FieldAssignment(VariableValue(<<"self">>), "c", NumericConst(1)),
                          Return(result)>>))

\* a class whose methods are seen in the output and in the fields when they are called
Noisy ==
    Class(<<"N", "o", "i", "s", "y">>,
          <<Method("t", <<>>, NoisyBody(<<"t">>, BoolConst(TRUE))),
            Method("z", <<>>, NoisyBody(<<"z">>, NumericConst(0)))>>,
          nullptr)

\* n = n + -1
DecrementN == Assignment("n", Add(VariableValue(<<"n">>), NumericConst(-1)))

\* r = 5
AssignR == Assignment("r", NumericConst(5))

LeftOperands ==
    { DecrementN, NumericConst(0), StringConst(<<"a">>), None, VariableValue(<<"u">>),
      MethodCall(NewInstance(1, Noisy, <<>>), "t", <<>>),
      MethodCall(NewInstance(1, Noisy, <<>>), "z", <<>>) }

RightOperands ==
    { AssignR, DecrementN, StringConst(<<>>), None, Div(NumericConst(1), NumericConst(0)),
      MethodCall(NewInstance(2, Noisy, <<>>), "t", <<>>),
      MethodCall(NewInstance(2, Noisy, <<>>), "z", <<>>) }

LogicalPrograms ==
    { And(l, r) : l \in LeftOperands, r \in RightOperands }
    \cup { Or(l, r) : l \in LeftOperands, r \in RightOperands }

\* the name and the number of parameters of a generated method
Signatures == { [name |-> "m", params |-> <<>>], [name |-> "m", params |-> <<"p">>],
                [name |-> "q", params |-> <<>>] }

\* the method that class level declares at position pos: it prints and returns its tag
TaggedMethod(level, pos, sig) ==
    LET tag == <<DigitChar(level), DigitChar(pos)>>
    IN  Method(sig.name, sig.params,
               MethodBody(Compound(<<PrintStatement(<<StringConst(tag)>>),
                                     Return(StringConst(tag))>>)))

\* the lists of at most most methods that the class level may declare
MethodLists(level, most) ==
    { [i \in DOMAIN sigs |-> TaggedMethod(level, i, sigs[i])] :
        sigs \in UNION { [1..k -> Signatures] : k \in 0..most } }

\* the chains C, C : P1 and C : P1 : P2; P2 declares at most one method
ChainsP2 == { Class(<<"P", "2">>, ms, nullptr) : ms \in MethodLists(3, 1) }

ChainsP1 ==
    { Class(<<"P", "1">>, ms, p) : ms \in MethodLists(2, MaxMethods),
                                   p \in ChainsP2 \cup {nullptr} }

ChainsC ==
    { Class(<<"C">>, ms, p) : ms \in MethodLists(1, MaxMethods),
                              p \in ChainsP1 \cup {nullptr} }

\* C().m(), C().m(1), C().q(), C().q(1)
DispatchPrograms ==
    { MethodCall(NewInstance(1, cls, <<>>), name, args) :
        cls \in ChainsC, name \in {"m", "q"}, args \in {<<>>, <<NumericConst(1)>>} }

\* the arguments of a generated Print
PrintOperands ==
    { NumericConst(1), StringConst(<<"a", "b">>), BoolConst(FALSE), None, DecrementN,
      VariableValue(<<"n">>), Div(NumericConst(7), NumericConst(2)),
      Div(NumericConst(4), NumericConst(0)),
      MethodCall(NewInstance(1, Noisy, <<>>), "t", <<>>) }

PrintPrograms ==
    { PrintStatement(args) : args \in UNION { [1..k -> PrintOperands] : k \in 0..MaxArgs } }

\* the bodies of the generated comparison hooks: return other == 1, return True,
\* return 1, and a body without return
HookBodies ==
    { MethodBody(Return(Comparison("Equal", VariableValue(<<"other">>), NumericConst(1)))),
      MethodBody(Return(BoolConst(TRUE))),
      MethodBody(Return(NumericConst(1))),
      MethodBody(Compound(<<>>)) }

\* a class that declares __eq__(other) and __lt__(other) with the given body
Hooked(body) ==
    Class(<<"H">>, <<Method("__eq__", <<"other">>, body), Method("__lt__", <<"other">>, body)>>,
          nullptr)

\* a class that inherits the hooks
Derived(body) == Class(<<"D">>, <<>>, Hooked(body))

\* a class whose hooks take two parameters
TwoParams ==
    Class(<<"W">>, <<Method("__eq__", <<"a", "b">>, MethodBody(Return(BoolConst(TRUE)))),
                     Method("__lt__", <<"a", "b">>, MethodBody(Return(BoolConst(TRUE))))>>,
          nullptr)

\* operands that yield a number, a string, a Boolean, none or the class Box
PlainOperands ==
    { NumericConst(1), NumericConst(2), StringConst(<<>>), StringConst(<<"a">>),
      StringConst(<<"a", "b">>), StringConst(<<"b">>), BoolConst(TRUE), BoolConst(FALSE),
      None, VariableValue(<<"Box">>) }

ComparisonLeft ==
    PlainOperands
    \cup { NewInstance(1, cls, <<>>) :
             cls \in {Box, TwoParams} \cup { Hooked(b) : b \in HookBodies }
                     \cup { Derived(b) : b \in HookBodies } }

ComparisonRight ==
    PlainOperands \cup { NewInstance(2, cls, <<>>) : cls \in {Box, TwoParams} }

ComparisonPrograms ==
    { Comparison(cmp, l, r) : cmp \in {"Equal", "Less"}, l \in ComparisonLeft,
                              r \in ComparisonRight }

\* the closure after the definition of the class Box
BoxDefined == [v \in {"Box"} |-> ClassValue(Box)]

\* a class with the method set(v), whose body is self.w = v
Cell ==
    Class(<<"C", "e", "l", "l">>,
          <<Method("set", <<"v">>,
                   MethodBody(FieldAssignment(VariableValue(<<"self">>), "w",
                                              VariableValue(<<"v">>))))>>,
          nullptr)

\* the closure and the objects after o = Cell(); o.p = Cell(); o.v = 5; o.p.v = 'a';
\* alias = o; x = 1
ObjectsClosure ==
    [v \in {"o", "alias", "x"} |-> IF v = "x" THEN Number(1) ELSE Instance(1, Cell)]

ObjectsHeap ==
    [id \in {1, 2} |->
        IF id = 1 THEN [f \in {"p", "v"} |-> IF f = "p" THEN Instance(2, Cell) ELSE Number(5)]
        ELSE [f \in {"v"} |-> String(<<"a">>)]]

\* the identifiers of the generated dotted paths: u is bound nowhere
PathNames == {"o", "p", "v", "x", "u"}

Paths == UNION { [1..k -> PathNames] : k \in 1..MaxPath }

LookupPrograms == { VariableValue(ids) : ids \in Paths }

\* x = x + 1
IncrementX == Assignment("x", Add(VariableValue(<<"x">>), NumericConst(1)))

\* the right-hand sides of the generated field assignments
FieldValues ==
    { NumericConst(9), None, IncrementX, VariableValue(<<"o", "v">>), VariableValue(<<"o">>),
      VariableValue(<<"u">>), Div(NumericConst(1), NumericConst(0)),
      MethodCall(VariableValue(<<"o">>), "set", <<NumericConst(3)>>) }

\* o.f = rv, alias.f = rv, o.p.f = rv, and the same assignment made by a method
\* through self: o.set(rv), o.p.set(rv)
FieldPrograms ==
    { FieldAssignment(VariableValue(ids), f, rv) :
        ids \in {<<"o">>, <<"alias">>, <<"o", "p">>}, f \in {"v", "w"}, rv \in FieldValues }
    \cup { MethodCall(VariableValue(ids), "set", <<rv>>) :
             ids \in {<<"o">>, <<"o", "p">>}, rv \in FieldValues }

\* a program with the closure and the objects it is executed with
Scenario(p, c, h) == [program |-> p, closure |-> c, heap |-> h]

Scenarios ==
    { Scenario(p, <<>>, <<>>) : p \in MakeTwicePrograms }
    \cup { Scenario(p, c, <<>>) : p \in MethodEnvPrograms, c \in CallerClosures }
    \cup { Scenario(p, c, <<>>) : p \in LogicalPrograms, c \in CallerClosures }
    \cup { Scenario(p, <<>>, <<>>) : p \in DispatchPrograms }
    \cup { Scenario(p, c, <<>>) : p \in PrintPrograms, c \in CallerClosures }
    \cup { Scenario(p, BoxDefined, <<>>) : p \in ComparisonPrograms }
    \cup { Scenario(p, ObjectsClosure, ObjectsHeap) : p \in LookupPrograms }
    \cup { Scenario(p, ObjectsClosure, ObjectsHeap) : p \in FieldPrograms }

\* ---------------------------------------- the evaluation of these programs

InitRuntime ==
    /\ \E s \in Scenarios :
          /\ program = s.program
          /\ closure = s.closure
          /\ heap = s.heap
    /\ output = <<>>
    /\ outcome = [kind |-> "idle"]
    /\ src = <<>>
    /\ input_ = <<>>
    /\ current_indent_size_ = 0
    /\ indent_sizes_ = <<0>>
    /\ tokens_ = <<>>
    /\ status = "idle"

\* the outermost call, when it has defined behaviour
ExecuteDefined == ExecuteProgram /\ outcome'.kind # "undefined"

\* what may be seen after a null pointer was dereferenced: the process is killed, or
\* it goes on with some holder
UndefinedOutcomes ==
    { [kind |-> "crash", val |-> [what |-> "null dereference"]],
      [kind |-> "value", val |-> NoneValue],
      [kind |-> "value", val |-> Number(0)] }

\* the outermost call, when it dereferences a null pointer
ExecuteUndefined ==
    /\ outcome.kind = "idle"
    /\ LET r == Execute(program, closure, [output |-> output, heap |-> heap])
       IN  /\ r.kind = "undefined"
           /\ outcome' \in UndefinedOutcomes
           /\ closure' = r.closure
           /\ output' = r.context.output
           /\ heap' = r.context.heap
    /\ UNCHANGED <<program, lexvars>>

NextRuntime == ExecuteDefined \/ ExecuteUndefined

SpecRuntime == InitRuntime /\ [][NextRuntime]_vars

\* ---------------------------------------------- properties of the evaluator

RECURSIVE Unwind(_, _, _)

RECURSIVE UnwindFrom(_, _, _, _)
UnwindFrom(stmts, i, c, ctx) ==
    IF i > Len(stmts) THEN Returned(NoneValue, c, ctx)
    ELSE LET r == Unwind(stmts[i], c, ctx)
         IN  IF r.kind # "value" THEN r ELSE UnwindFrom(stmts, i + 1, r.closure, r.context)

\* the statements of a method body evaluated with an explicit result, "value" for a
\* statement that completed and "returning" for one that executed a Return: a
\* Compound stops at the first statement that is returning, an IfElse is what its
\* taken branch is, and a MethodBody turns returning into its value
Unwind(node, c, ctx) ==
    CASE node.type = "Compound" -> UnwindFrom(node.statements_, 1, c, ctx)
      [] node.type = "IfElse" ->
            LET r == Execute(node.condition_, c, ctx)
            IN  IF r.kind # "value" THEN r
                ELSE IF IsTrue(r.val) THEN Unwind(node.if_body_, r.closure, r.context)
                ELSE IF node.else_body_ # nullptr
                THEN Unwind(node.else_body_, r.closure, r.context)
                ELSE Returned(NoneValue, r.closure, r.context)
      [] node.type = "Return" ->
            LET r == Execute(node.statement_, c, ctx)
            IN  IF r.kind # "value" THEN r ELSE [r EXCEPT !.kind = "returning"]
      [] node.type = "MethodBody" ->
            LET r == Unwind(node.body_, c, ctx)
            IN  IF r.kind = "returning" THEN [r EXCEPT !.kind = "value"]
                ELSE IF r.kind = "value" THEN [r EXCEPT !.val = NoneValue]
                ELSE r
      [] OTHER -> Execute(node, c, ctx)

\* C9: a MethodBody executed at the root ends as its explicit-result evaluation
\* does: once a Return has been executed at any depth of Compound and IfElse, no
\* later statement writes the closure or the output and the MethodBody yields the
\* value of that Return; when no Return is executed it yields none
C9_ReturnUnwind ==
    [][ (outcome.kind = "idle" /\ program.type = "MethodBody") =>
          LET u == Unwind(program, closure, [output |-> output, heap |-> heap])
          IN  /\ outcome' = [kind |-> u.kind, val |-> u.val]
              /\ closure' = u.closure
              /\ output' = u.context.output ]_vars

\* a Return nested in two IfElse and a Compound was executed between two Print
\* statements: the first has printed, the second has not
C9_Witness ==
    /\ program.type = "MethodBody"
    /\ program.body_.type = "Compound"
    /\ Len(program.body_.statements_) = 3
    /\ program.body_.statements_[1] = Print12
    /\ program.body_.statements_[2] =
           IfElse(VariableValue(<<"n">>),
                  Compound(<<IfElse(BoolConst(TRUE), Return3, nullptr), Print12>>),
                  Return(None))
    /\ program.body_.statements_[3] = Print12
    /\ closure["n"] = Number(7)
    /\ outcome = [kind |-> "value", val |-> Number(3)]
    /\ output = <<"1", "2", "\n">>

\* C10: the outermost Execute call ends with a value or a runtime error, never
\* with the return-carrier in flight
C10_NoCarrierEscapes == outcome.kind \in {"idle", "value", "runtime_error"}

\* C11: an evaluation of NewInstance yields an instance that no earlier evaluation of
\* that node has returned, and whose fields are empty when the class has no __init__
\* that takes the given number of arguments: after a = m.make(); a.f = v; b = m.make(),
\* where make() returns Box(), a and b are two instances and b has no field
C11_FreshInstance ==
    (program \in MakeTwicePrograms /\ outcome.kind = "value")
        => /\ closure["a"].id # closure["b"].id
           /\ DOMAIN Fields([heap |-> heap], closure["b"].id) = {}

\* the closure the claim C12 gives the body of f in K().f(1, n), after its w = 99
C12_BodyClosure(w) ==
    LET fresh == [v \in {"self", "p", "q"} |->
                    CASE v = "self" -> program.object_.class_
                      [] v = "p"    -> Number(1)
                      [] v = "q"    -> closure["n"]]
    IN  [v \in {"self", "p", "q", w} |-> IF v = w THEN Number(99) ELSE fresh[v]]

\* C12: a method invocation evaluates the body in a fresh closure that holds self
\* (the receiving instance) and every formal parameter bound to the argument at its
\* position, and nothing else: the body sees no binding of the caller, and what the
\* body assigns to plain names leaves the closure of the caller as it was
C12_Step ==
    \A w \in BodyNames \ {"self"}, name \in BodyNames :
        program = MethodEnv(w, name) =>
            /\ closure' = closure
            /\ outcome' = IF name \in DOMAIN C12_BodyClosure(w)
                          THEN [kind |-> "value", val |-> C12_BodyClosure(w)[name]]
                          ELSE [kind |-> "runtime_error",
                                val |-> [what |-> <<"variable not found", name>>]]

C12_FreshMethodClosure == [][ C12_Step ]_vars

\* the body assigned n and then read x: the x of the caller is not seen by the body,
\* and the n of the caller is still 7
C12_Witness ==
    /\ program = MethodEnv("n", "x")
    /\ outcome.kind = "runtime_error"
    /\ closure["n"] = Number(7)

\* the outermost call ends as the evaluation r has ended
EndsAs(r) ==
    /\ outcome' = [kind |-> r.kind, val |-> r.val]
    /\ closure' = r.closure
    /\ output' = r.context.output
    /\ heap' = r.context.heap

\* C13: And and Or evaluate L once, before R; And with L not truthy yields false and
\* Or with L truthy yields true without evaluating R, and then the closure, the fields
\* and the output are as L left them; otherwise R is evaluated once after L and the
\* result is the Boolean of its truthiness
C13_Step ==
    program.type \in {"And", "Or"} =>
        LET l == Execute(program.lhs_, closure, [output |-> output, heap |-> heap])
            r == Execute(program.rhs_, l.closure, l.context)
            short == IsTrue(l.val) = (program.type = "Or")
        IN  /\ l.kind = "value" /\ short =>
                  EndsAs(Returned(Bool(program.type = "Or"), l.closure, l.context))
            /\ l.kind = "value" /\ ~short /\ r.kind = "value" =>
                  EndsAs(Returned(Bool(IsTrue(r.val)), r.closure, r.context))
            /\ l.kind = "value" /\ ~short /\ r.kind # "value" => EndsAs(r)

C13_ShortCircuit == [][ C13_Step ]_vars

\* n was 1: L has set it to 0 once, And has yielded False, and r = 5 was not executed
C13_Witness ==
    /\ program = And(DecrementN, AssignR)
    /\ outcome = [kind |-> "value", val |-> Bool(FALSE)]
    /\ closure["n"] = Number(0)
    /\ "r" \notin DOMAIN closure

RECURSIVE ChainMethods(_)
\* the methods of cls, then those of its parent, of the parent of its parent, ...
ChainMethods(cls) ==
    IF cls = nullptr THEN <<>> ELSE cls.methods \o ChainMethods(cls.parent)

\* the methods of that name in the chain of cls, in the order of the scan
Named(cls, name) == SelectSeq(ChainMethods(cls), LAMBDA m : m.name = name)

\* the text a generated method prints and returns
Tag(method) == method.body.body_.statements_[1].args_[1].value_.s

\* C14: GetMethod(m) on the chain C, P1, P2 returns the first method named m in the
\* order C's methods, P1's methods, P2's methods, and none only when there is none; a
\* call with k arguments runs that first method when it has k parameters, and else
\* raises a runtime error and runs no body (a method of k parameters further up, hidden
\* by the first, is not selected)
C14_Step ==
    (program.type = "MethodCall" /\ program.method_ \in {"m", "q"}) =>
        LET cls   == program.object_.class_.cls
            named == Named(cls, program.method_)
        IN  /\ GetMethod(cls, program.method_) = IF named = <<>> THEN nullptr ELSE Head(named)
            /\ IF named # <<>> /\ Len(Head(named).formal_params) = Len(program.args_)
               THEN /\ outcome' = [kind |-> "value", val |-> String(Tag(Head(named)))]
                    /\ output' = Append(Tag(Head(named)), "\n")
               ELSE /\ outcome'.kind = "runtime_error"
                    /\ output' = output

C14_FirstDeclaredMethod == [][ C14_Step ]_vars

\* m() has failed although a class further up the chain declares m without parameters
C14_Witness ==
    /\ program.type = "MethodCall" /\ program.method_ = "m" /\ program.args_ = <<>>
    /\ outcome.kind = "runtime_error"
    /\ output = <<>>
    /\ \E i \in 2..Len(Named(program.object_.class_.cls, "m")) :
          Named(program.object_.class_.cls, "m")[i].formal_params = <<>>

\* C15: when the evaluation of an argument of a Print raises a runtime error, the
\* error leaves the Print as it is and the Print has written nothing: the output is
\* what the evaluations of the arguments themselves have written up to the error
C15_Step ==
    program.type = "Print" =>
        LET a == ExecuteArguments(program.args_, closure, [output |-> output, heap |-> heap])
        IN  a.kind = "runtime_error" => EndsAs(a)

C15_PrintErrorWritesNothing == [][ C15_Step ]_vars

\* print 1, 4 / 0 has raised the runtime error and the output is empty
C15_Witness ==
    /\ program = PrintStatement(<<NumericConst(1), Div(NumericConst(4), NumericConst(0))>>)
    /\ outcome = [kind |-> "runtime_error", val |-> [what |-> <<"try to divide to zero">>]]
    /\ output = <<>>

\* the print representation of a value that is not an object
Representation(v) == IF v.kind = "None" THEN <<"N", "o", "n", "e">> ELSE ObjectPrint(v)

RECURSIVE Joined(_)
\* the representations of the values vs with one space between two of them
Joined(vs) ==
    IF vs = <<>> THEN <<>>
    ELSE IF Len(vs) = 1 THEN Representation(vs[1])
    ELSE Representation(vs[1]) \o <<" ">> \o Joined(Tail(vs))

\* C16: Print evaluates its arguments once each from left to right, and then appends
\* to the output their representations with one space between two of them and one
\* newline at the end (None for an empty holder, only the newline without arguments);
\* it returns none and binds nothing in the closure
C16_Step ==
    program.type = "Print" =>
        LET a == ExecuteArguments(program.args_, closure, [output |-> output, heap |-> heap])
        IN  a.kind = "value" =>
                /\ outcome' = [kind |-> "value", val |-> NoneValue]
                /\ closure' = a.closure
                /\ heap' = a.context.heap
                /\ output' = a.context.output \o Joined(a.val) \o <<"\n">>

C16_PrintFormat == [][ C16_Step ]_vars

\* n was 7: print n = n + -1, None, n = n + -1 has written 6 None 5 and n is 5
C16_Witness ==
    /\ program = PrintStatement(<<DecrementN, None, DecrementN>>)
    /\ output = <<"6", " ", "N", "o", "n", "e", " ", "5", "\n">>
    /\ closure["n"] = Number(5)
    /\ outcome = [kind |-> "value", val |-> NoneValue]

\* the place of a generated string in the order of strings
Rank(str) ==
    CASE str = <<>> -> 0 [] str = <<"a">> -> 1 [] str = <<"a", "b">> -> 2 [] str = <<"b">> -> 3

\* the outermost call returns the Boolean b
YieldsBool(b) == outcome' = [kind |-> "value", val |-> Bool(b)]

\* C17: Equal and Less compare two numbers, two strings or two Booleans by value, Equal
\* is true for two nones, for an instance l whose class chain gives __eq__ (__lt__)
\* with one parameter they return what that method returns when called with r, and for
\* every other pair of operands they raise a runtime error
C17_Step ==
    program.type = "Comparison" =>
        LET ctx  == [output |-> output, heap |-> heap]
            l    == Execute(program.lhs_, closure, ctx).val
            r    == Execute(program.rhs_, closure, ctx).val
            eq   == program.cmp_ = "Equal"
            hook == IF eq THEN "__eq__" ELSE "__lt__"
            h    == Call(l, hook, <<r>>, ctx)
        IN  CASE l.kind = "Number" /\ r.kind = "Number" ->
                    YieldsBool(IF eq THEN l.n = r.n ELSE l.n < r.n)
              [] l.kind = "String" /\ r.kind = "String" ->
                    YieldsBool(IF eq THEN l.s = r.s ELSE Rank(l.s) < Rank(r.s))
              [] l.kind = "Bool" /\ r.kind = "Bool" ->
                    YieldsBool(IF eq THEN l.b = r.b ELSE ~l.b /\ r.b)
              [] eq /\ l.kind = "None" /\ r.kind = "None" -> YieldsBool(TRUE)
              [] l.kind = "Instance" /\ HasMethod(l.cls, hook, 1) ->
                    outcome' = [kind |-> h.kind, val |-> h.val]
              [] OTHER -> outcome'.kind = "runtime_error"

C17_Comparators == [][ C17_Step ]_vars

RECURSIVE Resolve(_, _)
\* what the claim C18 gives for the identifiers ids looked up from the bindings env
Resolve(ids, env) ==
    IF Head(ids) \notin DOMAIN env THEN [kind |-> "runtime_error"]
    ELSE IF Len(ids) = 1 THEN [kind |-> "value", val |-> env[Head(ids)]]
    ELSE IF env[Head(ids)].kind # "Instance" THEN [kind |-> "runtime_error"]
    ELSE Resolve(Tail(ids), Fields([heap |-> heap], env[Head(ids)].id))

\* C18: VariableValue over a dotted path looks the first identifier up in the closure
\* and every later one in the fields of the instance the one before it names, and
\* returns the value of the last; an identifier that is not bound, or an identifier
\* before the last that is bound to something else than an instance, makes it end in a
\* runtime error; the lookup binds nothing and changes no binding
C18_Step ==
    program.type = "VariableValue" =>
        LET expected == Resolve(program.dotted_ids_, closure)
        IN  /\ closure' = closure
            /\ heap' = heap
            /\ outcome'.kind = expected.kind
            /\ expected.kind = "value" => outcome'.val = expected.val

C18_DottedLookup == [][ C18_Step ]_vars

\* after the step, the field f of the instance target holds v and is read as v through
\* every name of the closure that is bound to target
SeenThroughAliases(target, f, v) ==
    /\ heap'[target.id][f] = v
    /\ \A name \in DOMAIN closure' :
          closure'[name] = target =>
              Execute(VariableValue(<<name, f>>), closure',
                      [output |-> output', heap |-> heap']).val = v

\* C19: a FieldAssignment whose object path names an instance evaluates the right-hand
\* side once and binds the field in the fields of that instance only; the value is then
\* read through every name bound to that instance, whether the assignment was made
\* through a variable of the caller or through self in a method
C19_Step ==
    LET ctx    == [output |-> output, heap |-> heap]
        assign == program.type = "FieldAssignment"
        target == Execute(program.object_, closure, ctx).val
        f      == IF assign THEN program.field_name_ ELSE "w"
        r      == Execute(IF assign THEN program.rv_ ELSE program.args_[1], closure, ctx)
    IN  (assign \/ (program.type = "MethodCall" /\ program.method_ = "set")) =>
            IF r.kind = "value"
            THEN /\ outcome' = [kind |-> "value", val |-> IF assign THEN r.val ELSE NoneValue]
                 /\ closure' = r.closure
                 /\ output' = r.context.output
                 /\ heap' = [r.context.heap EXCEPT ![target.id] = Bind(@, f, r.val)]
                 /\ SeenThroughAliases(target, f, r.val)
            ELSE EndsAs(r)

C19_FieldAssignment == [][ C19_Step ]_vars

\* x was 1: o.w = (x = x + 1) has evaluated the right-hand side once, w of the
\* instance of o and alias is 2, and the other instance is as it was
C19_Witness ==
    /\ program = FieldAssignment(VariableValue(<<"o">>), "w", IncrementX)
    /\ outcome = [kind |-> "value", val |-> Number(2)]
    /\ closure["x"] = Number(2)
    /\ closure["alias"] = closure["o"]
    /\ heap[closure["alias"].id]["w"] = Number(2)
    /\ heap[2] = ObjectsHeap[2]

\* C20: the indent stack is never empty, its bottom is 0, it increases strictly from
\* bottom to top, all its elements are even, and an element equals the number of
\* leading spaces of the line that pushed it (the top after an Indent is
\* current_indent_size_), also for 256 and more leading spaces; so ParseIndent never
\* pops the 0 at the bottom
C20_IndentStack ==
    /\ indent_sizes_ # <<>>
    /\ indent_sizes_[1] = 0
    /\ \A i \in 1..(Len(indent_sizes_) - 1) : indent_sizes_[i] < indent_sizes_[i + 1]
    /\ \A i \in 1..Len(indent_sizes_) : indent_sizes_[i] % 2 = 0
    /\ IsTok(tokens_, "Indent") => Top(indent_sizes_) = current_indent_size_

\* the tokens ParseIndent has emitted last, one after the other: between two of them
\* the lexer reads no character
IndentRun(toks) ==
    CHOOSE n \in 0..Len(toks) :
        /\ \A i \in (Len(toks) - n + 1)..Len(toks) : toks[i].type \in {"Indent", "Dedent"}
        /\ n < Len(toks) => toks[Len(toks) - n].type \notin {"Indent", "Dedent"}

\* the characters of the lines that are not leading spaces
BodyLength(ls) == Len(Flatten([i \in DOMAIN ls |-> [ls[i] EXCEPT !.indent = 0]]))

\* the tokens a lexer can emit before Eof: one for a character it reads, an Indent
\* and a Dedent for a line, and the Newline that ParseEof adds
TokenBound(ls) == BodyLength(ls) + 2 * Len(ls) + 1

\* C21: on a finite input without LexerError the calls of NextToken reach Eof after
\* finitely many tokens, and no run of Indent and Dedent tokens emitted without
\* reading input is longer than the lines allow, also when current_indent_size_ and
\* the top of the 8-bit stack cannot become equal
C21_EofAfterFinitelyManyCalls ==
    status = "ok" =>
        /\ IndentRun(tokens_) <= Len(src)
        /\ EofCount(tokens_) = 0 => Len(tokens_) <= TokenBound(src)

====
